---- MODULE Spec2Model ----
(***************************************************************************)
(* Model of the identity-management service's query filter builder         *)
(* (pkg/db/common.go) and of the user-group binding handlers               *)
(* (pkg/service/im/resource/user_group_binding_control.go).                *)
(*                                                                         *)
(* Go strings that the code inspects or concatenates (column names, tags,  *)
(* search terms, SQL condition text) are sequences of one-character        *)
(* strings, so that Split, HasSuffix, Join and concatenation are computed. *)
(* Names that are only compared for equality (table names, method names,   *)
(* user and group ids of the binding table) are plain strings.             *)
(***************************************************************************)
EXTENDS Integers, Sequences, FiniteSets, TLC

VARIABLES chain, before, op, args, ret, bindings, pc, req, resp, calls

vars == <<chain, before, op, args, ret, bindings, pc, req, resp, calls>>

imVars == <<bindings, pc, req, resp>>

(***************************************************************************)
(* Bounds of the model.                                                    *)
(***************************************************************************)
MaxTerms == 2

MaxIds == 2

MaxCols == 2

MaxGroupIds == 1

MaxN == 210

MaxChainCalls == 2

(***************************************************************************)
(* Go strings as character sequences.                                      *)
(***************************************************************************)
RECURSIVE SeqsUpTo(_, _)
SeqsUpTo(S, n) ==
    IF n = 0 THEN {<<>>}
    ELSE LET shorter == SeqsUpTo(S, n - 1)
         IN  shorter \cup {Append(s, x) : s \in shorter, x \in S}

\* strings.Join(elems, sep)
RECURSIVE Join(_, _)
Join(elems, sep) ==
    IF elems = <<>> THEN <<>>
    ELSE IF Len(elems) = 1 THEN elems[1]
    ELSE elems[1] \o sep \o Join(Tail(elems), sep)

\* strings.Split(s, sep) for a one-character separator: never an empty result.
RECURSIVE Split(_, _)
Split(s, sep) ==
    IF \A i \in 1..Len(s) : s[i] # sep THEN <<s>>
    ELSE LET i == CHOOSE k \in 1..Len(s) :
                      s[k] = sep /\ \A j \in 1..(k - 1) : s[j] # sep
         IN  <<SubSeq(s, 1, i - 1)>> \o Split(SubSeq(s, i + 1, Len(s)), sep)

\* strings.HasSuffix(s, suffix)
HasSuffix(s, suffix) ==
    /\ Len(s) >= Len(suffix)
    /\ SubSeq(s, Len(s) - Len(suffix) + 1, Len(s)) = suffix

\* stringutil.Contains(list, s)
Contains(list, s) == \E i \in 1..Len(list) : list[i] = s

\* stringutil.SimplifyString(s): the pattern-match metacharacters of s are
\* made literal by an escape character in front of each.
RECURSIVE SimplifyString(_)
SimplifyString(s) ==
    IF s = <<>> THEN <<>>
    ELSE IF Head(s) \in {"%", "_", "\\"}
         THEN <<"\\", Head(s)>> \o SimplifyString(Tail(s))
         ELSE <<Head(s)>> \o SimplifyString(Tail(s))

(***************************************************************************)
(* Constants of pkg/db/common.go and the table metadata of pkg/constants.  *)
(***************************************************************************)
DefaultOffset == 0

DefaultLimit == 20

DefaultSelectLimit == 200

SearchWordColumnName == <<"s","e","a","r","c","h","_","w","o","r","d">>

ColumnUserId == <<"u","s","e","r","_","i","d">>

ColumnGroupId == <<"g","r","o","u","p","_","i","d">>

ColumnGroupPath == <<"g","r","o","u","p","_","p","a","t","h">>

ColumnName == <<"n","a","m","e">>

ColumnCreateTime == <<"c","r","e","a","t","e","_","t","i","m","e">>

TableUser == "user"

TableUserGroupBinding == "user_group_binding"

TableRole == "role"

TableNames == {TableUser, TableUserGroupBinding, TableRole}

\* constants.IndexedColumns: table name -> indexed columns (no entry for role)
IndexedColumns ==
    [t \in {TableUser, TableUserGroupBinding} |->
        IF t = TableUser THEN <<ColumnUserId, ColumnName>>
        ELSE <<ColumnUserId, ColumnGroupId>>]

\* constants.SearchColumns: table name -> searchable columns, in order
SearchColumns == [t \in {TableUser} |-> <<ColumnUserId, ColumnName>>]

\* constants.SearchWordColumnTable: the tables that take a search word
SearchWordColumnTable == <<TableUser>>

(***************************************************************************)
(* Request values.  A field value is a Go value of one of the types the    *)
(* type switch of getReqValue tells apart, or of another type.             *)
(***************************************************************************)
Terms == {<<>>, <<"a">>, <<"%","b">>}

StringParam(s) == [kind |-> "string", isNil |-> FALSE, v |-> s]

StringValueParam(s) == [kind |-> "*StringValue", isNil |-> FALSE, v |-> s]

NilStringValueParam == [kind |-> "*StringValue", isNil |-> TRUE, v |-> <<>>]

Int32ValueParam(n) == [kind |-> "*Int32Value", isNil |-> FALSE, v |-> n]

NilInt32ValueParam == [kind |-> "*Int32Value", isNil |-> TRUE, v |-> 0]

StringsParam(l) == [kind |-> "[]string", isNil |-> FALSE, v |-> l]

NilStringsParam == [kind |-> "[]string", isNil |-> TRUE, v |-> <<>>]

OtherParam == [kind |-> "bool", isNil |-> FALSE, v |-> TRUE]

TermLists == SeqsUpTo(Terms, MaxTerms)

Params ==
    {StringParam(s) : s \in Terms}
    \cup {StringValueParam(s) : s \in Terms}
    \cup {Int32ValueParam(n) : n \in {0, 7}}
    \cup {StringsParam(l) : l \in TermLists}
    \cup {NilStringValueParam, NilInt32ValueParam, NilStringsParam, OtherParam}

\* The nil interface value, and the two slices getReqValue returns.
NilValue == [kind |-> "nil", v |-> <<>>]

StringsValue(l) == [kind |-> "[]string", v |-> l]

Int32sValue(l) == [kind |-> "[]int32", v |-> l]

(***************************************************************************)
(* Pure functions of pkg/db/common.go.                                     *)
(***************************************************************************)
\* GetLimit without the clamp to DefaultSelectLimit.
GetLimit_NoClamp(n) == IF n < 0 THEN 0 ELSE n

\* The test n < 0 is on a uint32 and never true.
GetLimit(n) ==
    LET n1 == IF n < 0 THEN 0 ELSE n
    IN  IF n1 > DefaultSelectLimit THEN DefaultSelectLimit ELSE n1

GetOffset(n) == IF n < 0 THEN 0 ELSE n

GetOffsetFromRequest(n) == IF n = 0 THEN DefaultOffset ELSE GetOffset(n)

GetLimitFromRequest(n) == IF n = 0 THEN DefaultLimit ELSE GetLimit(n)

\* The loop of the []string case without the test for "".
AppendNonEmpty_KeepEmpty(values, value) == values \o value

\* The loop of the []string case: append every element that is not "".
RECURSIVE AppendNonEmpty(_, _)
AppendNonEmpty(values, value) ==
    IF value = <<>> THEN values
    ELSE AppendNonEmpty(IF Head(value) # <<>> THEN Append(values, Head(value))
                        ELSE values,
                        Tail(value))

getReqValue(param) ==
    CASE param.kind = "string" ->
            IF param.v = <<>> THEN NilValue ELSE StringsValue(<<param.v>>)
      [] param.kind = "*StringValue" ->
            IF param.isNil THEN NilValue ELSE StringsValue(<<param.v>>)
      [] param.kind = "*Int32Value" ->
            IF param.isNil THEN NilValue ELSE Int32sValue(<<param.v>>)
      [] param.kind = "[]string" ->
            LET values == AppendNonEmpty(<<>>, param.v)
            IN  IF Len(values) = 0 THEN NilValue ELSE StringsValue(values)
      [] OTHER -> NilValue

\* A Go slice is nil or a (possibly empty) list.
NilSlice == [isNil |-> TRUE, v |-> <<>>]

Slice(l) == [isNil |-> FALSE, v |-> l]

RECURSIVE AppendKnown(_, _, _)
AppendKnown(newDisplayColumns, displayColumns, wholeColumns) ==
    IF displayColumns = <<>> THEN newDisplayColumns
    ELSE AppendKnown(IF Contains(wholeColumns, Head(displayColumns))
                     THEN Slice(Append(newDisplayColumns.v, Head(displayColumns)))
                     ELSE newDisplayColumns,
                     Tail(displayColumns), wholeColumns)

\* GetDisplayColumns taking an empty list for a nil one.
GetDisplayColumns_EmptyAsNil(displayColumns, wholeColumns) ==
    IF displayColumns.isNil \/ Len(displayColumns.v) = 0 THEN wholeColumns
    ELSE AppendKnown(NilSlice, displayColumns.v, wholeColumns.v)

GetDisplayColumns(displayColumns, wholeColumns) ==
    IF displayColumns.isNil THEN wholeColumns
    ELSE IF Len(displayColumns.v) = 0 THEN NilSlice
    ELSE AppendKnown(NilSlice, displayColumns.v, wholeColumns.v)

\* getFieldName(field): the part of the json tag before the first comma.
getFieldName(tag) ==
    LET t == Split(tag, ",")
    IN  IF Len(t) = 0 THEN <<"-">> ELSE t[1]

(***************************************************************************)
(* The chain: the conditions and orderings the wrapped gorm.DB carries.    *)
(***************************************************************************)
EmptyDB == [where |-> <<>>, order |-> <<>>]

\* (*gorm.DB).Where(query, args...)
Where(db, query, qargs) ==
    [db EXCEPT !.where = Append(@, [query |-> query, args |-> qargs])]

\* (*gorm.DB).Order(value)
Order(db, value) == [db EXCEPT !.order = Append(@, value)]

StatusCondition == <<"s","t","a","t","u","s"," ","=", " ","?">>

\* The query states a caller hands to GetChain.
InitialDBs ==
    {EmptyDB,
     Where(EmptyDB, StatusCondition, <<StringsValue(<<<<"a">>>>)>>),
     Order(Where(EmptyDB, <<>>, <<>>), ColumnName)}

GetChain(tx) == tx

(***************************************************************************)
(* Pure-function calls: each applies one function to inputs drawn from     *)
(* the bounded sets and records the result.                                *)
(***************************************************************************)
\* uint32 inputs: every small value, and large ones up to the largest integer
\* TLC represents (no arithmetic is done on them, so nothing wraps).
Uint32Inputs == (0..MaxN) \cup {500, 65536, 2147483647}

ColumnLists == SeqsUpTo({"a", "b", "z"}, MaxCols)

DisplayInputs == {NilSlice} \cup {Slice(l) : l \in ColumnLists}

WholeInputs == {NilSlice, Slice(<<"a", "b">>), Slice(<<"b">>)}

\* A request's chain right after GetChain; no binding handler runs.
Init ==
    /\ chain \in InitialDBs
    /\ before = chain
    /\ op = "GetChain"
    /\ args = <<>>
    /\ ret = <<>>
    /\ calls = 0
    /\ bindings = <<>>
    /\ pc = <<>>
    /\ req = <<>>
    /\ resp = <<>>

CallGetChain ==
    /\ \E tx \in InitialDBs : chain' = GetChain(tx)
    /\ before' = chain'
    /\ op' = "GetChain"
    /\ args' = <<>>
    /\ ret' = <<>>
    /\ calls' = 0
    /\ UNCHANGED imVars

CallGetReqValue ==
    /\ \E param \in Params :
          /\ args' = param
          /\ ret' = getReqValue(param)
    /\ op' = "getReqValue"
    /\ before' = chain
    /\ UNCHANGED <<chain, calls, imVars>>

CallGetLimitFromRequest ==
    /\ \E n \in Uint32Inputs :
          /\ args' = n
          /\ ret' = GetLimitFromRequest(n)
    /\ op' = "GetLimitFromRequest"
    /\ before' = chain
    /\ UNCHANGED <<chain, calls, imVars>>

CallGetOffsetFromRequest ==
    /\ \E n \in Uint32Inputs :
          /\ args' = n
          /\ ret' = GetOffsetFromRequest(n)
    /\ op' = "GetOffsetFromRequest"
    /\ before' = chain
    /\ UNCHANGED <<chain, calls, imVars>>

CallGetDisplayColumns ==
    /\ \E d \in DisplayInputs, w \in WholeInputs :
          /\ args' = [displayColumns |-> d, wholeColumns |-> w]
          /\ ret' = GetDisplayColumns(d, w)
    /\ op' = "GetDisplayColumns"
    /\ before' = chain
    /\ UNCHANGED <<chain, calls, imVars>>

NextPure ==
    \/ CallGetChain
    \/ CallGetReqValue
    \/ CallGetLimitFromRequest
    \/ CallGetOffsetFromRequest
    \/ CallGetDisplayColumns

SpecPure == Init /\ [][NextPure]_vars

(***************************************************************************)
(* The builder steps of Chain.                                             *)
(***************************************************************************)
InSuffix == <<" ","i","n"," ","(","?",")">>

OrSeparator == <<" ","O","R"," ">>

AndSeparator == <<" ","A","N","D"," ">>

IdSuffix == <<"_","i","d">>

\* column + " LIKE '" + "%" + SimplifyString(v) + "%" + "'"
LikeCondition(column, v) ==
    column \o <<" ","L","I","K","E"," ","'">>
           \o (<<"%">> \o SimplifyString(v) \o <<"%">>) \o <<"'">>

\* column + " = '" + v + "'"
EqualCondition(column, v) == column \o <<" ","="," ","'">> \o v \o <<"'">>

\* BuildRootGroupIdConditions joining the conditions with AND.
BuildRootGroupIdConditions_JoinAnd(c, rootGroupIds) ==
    IF Len(rootGroupIds) > 0
    THEN Where(c, Join([i \in 1..Len(rootGroupIds) |->
                           LikeCondition(ColumnGroupPath, rootGroupIds[i])],
                       AndSeparator), <<>>)
    ELSE c

BuildRootGroupIdConditions(c, rootGroupIds) ==
    IF Len(rootGroupIds) > 0
    THEN LET conditions == [i \in 1..Len(rootGroupIds) |->
                               LikeCondition(ColumnGroupPath, rootGroupIds[i])]
             condition == Join(conditions, OrSeparator)
         IN  Where(c, condition, <<>>)
    ELSE c

\* constants.SearchColumns[tableName]: nil for a table without an entry
SearchColumnsOf(tableName) ==
    IF tableName \in DOMAIN SearchColumns THEN SearchColumns[tableName] ELSE <<>>

\* The inner loop of getSearchFilter: the conditions of one term v.
RECURSIVE searchConditions(_, _, _)
searchConditions(columns, v, exclude) ==
    IF columns = <<>> THEN <<>>
    ELSE LET column == Head(columns)
             rest == searchConditions(Tail(columns), v, exclude)
         IN  IF Contains(exclude, column) THEN rest
             ELSE IF HasSuffix(column, IdSuffix)
                  THEN <<EqualCondition(column, v)>> \o rest
                  ELSE <<LikeCondition(column, v)>> \o rest

\* The outer loop: orConditions is declared outside it and collects the
\* conditions of every term.
RECURSIVE orConditionsOf(_, _, _)
orConditionsOf(vs, tableName, exclude) ==
    IF vs = <<>> THEN <<>>
    ELSE searchConditions(SearchColumnsOf(tableName), Head(vs), exclude)
         \o orConditionsOf(Tail(vs), tableName, exclude)

\* getSearchFilter that does not skip the excluded columns.
getSearchFilter_NoExclude(c, tableName, value, exclude) ==
    LET andConditions ==
            IF value.kind = "[]string"
            THEN <<Join(orConditionsOf(value.v, tableName, <<>>), OrSeparator)>>
            ELSE <<>>
    IN  Where(c, Join(andConditions, AndSeparator), <<>>)

getSearchFilter(c, tableName, value, exclude) ==
    LET andConditions ==
            IF value.kind = "[]string"
            THEN <<Join(orConditionsOf(value.v, tableName, exclude), OrSeparator)>>
            ELSE <<>>   \* a value that is not nil is only logged
        condition == Join(andConditions, AndSeparator)
    IN  Where(c, condition, <<>>)

\* The loop body with the indexed filter skipped for an excluded column.
filterField_ExcludeIndexed(c, field, tableName, exclude) ==
    LET column == getFieldName(field.tag)
        param == field.value
        ok == tableName \in DOMAIN IndexedColumns
        c1 == IF ok /\ Contains(IndexedColumns[tableName], column)
                 /\ ~Contains(exclude, column)
                 /\ getReqValue(param) # NilValue
              THEN Where(c, column \o InSuffix, <<getReqValue(param)>>)
              ELSE c
    IN  IF column = SearchWordColumnName /\ Contains(SearchWordColumnTable, tableName)
        THEN getSearchFilter(c1, tableName, getReqValue(param), exclude)
        ELSE c1

\* The body of the loop of buildFilterConditions, for one field.
filterField(c, field, tableName, exclude) ==
    LET column == getFieldName(field.tag)
        param == field.value
        ok == tableName \in DOMAIN IndexedColumns
        c1 == IF ok /\ Contains(IndexedColumns[tableName], column)
              THEN LET value == getReqValue(param)
                   IN  IF value # NilValue
                       THEN Where(c, column \o InSuffix, <<value>>)
                       ELSE c
              ELSE c
    IN  IF column = SearchWordColumnName /\ Contains(SearchWordColumnTable, tableName)
        THEN getSearchFilter(c1, tableName, getReqValue(param), exclude)
        ELSE c1

RECURSIVE buildFilterConditions(_, _, _, _)
buildFilterConditions(c, fields, tableName, exclude) ==
    IF fields = <<>> THEN c
    ELSE buildFilterConditions(filterField(c, Head(fields), tableName, exclude),
                               Tail(fields), tableName, exclude)

BuildFilterConditions(c, fields, tableName, exclude) ==
    buildFilterConditions(c, fields, tableName, exclude)

\* The type assertions of AddQueryOrderDir: RequestWithSortKey asks for
\* GetSortKey, RequestWithReverse embeds it and asks for GetReverse too.
RequestWithSortKey == {"GetSortKey"}

RequestWithReverse == RequestWithSortKey \cup {"GetReverse"}

Implements(r, iface) == iface \subseteq r.methods

\* AddQueryOrderDir with the two directions exchanged.
AddQueryOrderDir_Swapped(c, r, defaultColumn) ==
    LET order == IF Implements(r, RequestWithReverse) /\ r.reverse
                 THEN <<"D","E","S","C">> ELSE <<"A","S","C">>
        column == IF Implements(r, RequestWithSortKey) /\ r.sortKey # <<>>
                  THEN r.sortKey ELSE defaultColumn
    IN  Order(c, column \o <<" ">> \o order)

AddQueryOrderDir(c, r, defaultColumn) ==
    LET order == IF Implements(r, RequestWithReverse) /\ r.reverse
                 THEN <<"A","S","C">> ELSE <<"D","E","S","C">>
        column == IF Implements(r, RequestWithSortKey) /\ r.sortKey # <<>>
                  THEN r.sortKey ELSE defaultColumn
    IN  Order(c, column \o <<" ">> \o order)

(***************************************************************************)
(* Requests.  structs.Fields(req) gives the declared fields of a request   *)
(* with their json tags; a request exposes GetSortKey and GetReverse or    *)
(* not, depending on its type.                                             *)
(***************************************************************************)
OmitEmpty == <<",","o","m","i","t","e","m","p","t","y">>

Field(tag, value) == [tag |-> tag, value |-> value]

UserIdValues ==
    {StringsParam(<<>>), StringsParam(<<<<"a">>, <<>>>>),
     StringParam(<<"a">>), StringParam(<<>>)}

NameValues ==
    {StringValueParam(<<>>), NilStringValueParam, Int32ValueParam(0), OtherParam}

SearchWordValues ==
    {StringsParam(l) : l \in TermLists}
    \cup {NilStringsParam, StringParam(<<"a">>), NilStringValueParam,
          Int32ValueParam(0), OtherParam}

\* The fields of a list request: two filter columns, the search word and a
\* field left out of the json encoding.
RequestFields(u, n, s) ==
    <<Field(ColumnUserId \o OmitEmpty, u),
      Field(ColumnName \o OmitEmpty, n),
      Field(SearchWordColumnName \o OmitEmpty, s),
      Field(<<"-">>, OtherParam)>>

FilterRequests ==
    {RequestFields(u, n, s) :
        u \in UserIdValues, n \in NameValues, s \in SearchWordValues}

Excludes == {<<>>, <<ColumnName>>, <<ColumnName, ColumnUserId>>}

OrderRequests ==
    [methods : SUBSET {"GetSortKey", "GetReverse"},
     sortKey : {<<>>, ColumnName},
     reverse : BOOLEAN]

DefaultColumns == {ColumnCreateTime, ColumnUserId}

RootGroupIds == {<<"g","1">>, <<"%","2">>}

RootGroupIdLists == SeqsUpTo(RootGroupIds, MaxIds)

(***************************************************************************)
(* Calls of the builder steps on the chain of one request.                 *)
(***************************************************************************)
CallBuildFilterConditions ==
    /\ op = "GetChain"
    /\ \E fields \in FilterRequests, tableName \in TableNames, exclude \in Excludes :
          /\ args' = [fields |-> fields, tableName |-> tableName, exclude |-> exclude]
          /\ chain' = BuildFilterConditions(chain, fields, tableName, exclude)
    /\ before' = chain
    /\ op' = "BuildFilterConditions"
    /\ ret' = <<>>
    /\ calls' = calls + 1
    /\ UNCHANGED imVars

CallBuildRootGroupIdConditions ==
    /\ calls < MaxChainCalls
    /\ \E rootGroupIds \in RootGroupIdLists :
          /\ args' = rootGroupIds
          /\ chain' = BuildRootGroupIdConditions(chain, rootGroupIds)
    /\ before' = chain
    /\ op' = "BuildRootGroupIdConditions"
    /\ ret' = <<>>
    /\ calls' = calls + 1
    /\ UNCHANGED imVars

CallAddQueryOrderDir ==
    /\ calls < MaxChainCalls
    /\ \E r \in OrderRequests, defaultColumn \in DefaultColumns :
          /\ args' = [req |-> r, defaultColumn |-> defaultColumn]
          /\ chain' = AddQueryOrderDir(chain, r, defaultColumn)
    /\ before' = chain
    /\ op' = "AddQueryOrderDir"
    /\ ret' = <<>>
    /\ calls' = calls + 1
    /\ UNCHANGED imVars

NextFilter ==
    \/ CallGetChain
    \/ CallBuildFilterConditions

SpecFilter == Init /\ [][NextFilter]_vars

Next ==
    \/ CallGetChain
    \/ CallBuildRootGroupIdConditions
    \/ CallAddQueryOrderDir

Spec == Init /\ [][Next]_vars

(***************************************************************************)
(* The user-group binding handlers.  The binding table holds one row per   *)
(* Create, each with its own binding id, so it is kept as the number of    *)
(* rows of each (user id, group id) pair.  Every handler runs in the       *)
(* goroutine of its RPC: a handler's statements on the database are atomic *)
(* one by one, and statements of different handlers interleave.            *)
(***************************************************************************)
Users == {"u1", "u2"}

Groups == {"g1"}

Pairs == Users \X Groups

Handlers == {"h1", "h2"}

UserIdLists == SeqsUpTo(Users, MaxIds)

GroupIdLists == SeqsUpTo(Groups, MaxGroupIds)

Range(l) == {l[i] : i \in 1..Len(l)}

RECURSIVE SumOver(_, _)
SumOver(f, S) ==
    IF S = {} THEN 0
    ELSE LET x == CHOOSE y \in S : TRUE IN f[x] + SumOver(f, S \ {x})

\* len(GetUserGroupBindings(userIds, groupIds)): the rows whose group id is
\* in groupIds and whose user id is in userIds.
GetUserGroupBindings(rows, userIds, groupIds) ==
    SumOver(rows, Range(userIds) \X Range(groupIds))

\* How often the nested loops of JoinGroup create the pair.
Creates(r, pair) ==
    Cardinality({i \in 1..Len(r.UserId) : r.UserId[i] = pair[1]})
    * Cardinality({j \in 1..Len(r.GroupId) : r.GroupId[j] = pair[2]})

\* Every pair of the request has a row.
AllBound(rows, r) ==
    \A u \in Range(r.UserId), g \in Range(r.GroupId) : rows[<<u, g>>] >= 1

\* A handler's answer; for LeaveGroup it also records whether every pair of
\* the request had a row when the handler last read or wrote the table.
Response(code, r, rows) ==
    [code |-> code, allBound |-> IF r.op = "LeaveGroup" THEN AllBound(rows, r) ELSE TRUE]

\* A binding table without duplicate rows and idle handlers; no chain is built.
InitBinding ==
    /\ bindings \in [Pairs -> {0, 1}]
    /\ pc = [h \in Handlers |-> "idle"]
    /\ req = [h \in Handlers |-> [op |-> "none", UserId |-> <<>>, GroupId |-> <<>>]]
    /\ resp = [h \in Handlers |-> [code |-> "none", allBound |-> TRUE]]
    /\ chain = EmptyDB
    /\ before = EmptyDB
    /\ op = "GetChain"
    /\ args = <<>>
    /\ ret = <<>>
    /\ calls = 0

\* JoinGroup up to the check that no user is in a group already.
JoinGroup(h) ==
    /\ pc[h] = "idle"
    /\ \E userId \in UserIdLists, groupId \in GroupIdLists, dbError \in BOOLEAN :
          LET r == [op |-> "JoinGroup", UserId |-> userId, GroupId |-> groupId]
          IN  /\ req' = [req EXCEPT ![h] = r]
              /\ IF Len(userId) = 0 \/ Len(groupId) = 0
                 THEN /\ resp' = [resp EXCEPT ![h] = Response("InvalidArgument", r, bindings)]
                      /\ pc' = pc
                 ELSE IF dbError
                 THEN /\ resp' = [resp EXCEPT ![h] = Response("DatabaseError", r, bindings)]
                      /\ pc' = pc
                 ELSE IF GetUserGroupBindings(bindings, userId, groupId) # 0
                 THEN /\ resp' = [resp EXCEPT ![h] = Response("PermissionDenied", r, bindings)]
                      /\ pc' = pc
                 ELSE /\ resp' = [resp EXCEPT ![h] = Response("none", r, bindings)]
                      /\ pc' = [pc EXCEPT ![h] = "JoinCreate"]
    /\ UNCHANGED <<bindings, chain, before, op, args, ret, calls>>

\* The transaction of JoinGroup: one Create per group id and user id, then Commit.
JoinGroupCommit(h) ==
    /\ pc[h] = "JoinCreate"
    /\ bindings' = [pair \in Pairs |-> bindings[pair] + Creates(req[h], pair)]
    /\ resp' = [resp EXCEPT ![h] = Response("OK", req[h], bindings)]
    /\ pc' = [pc EXCEPT ![h] = "idle"]
    /\ UNCHANGED <<req, chain, before, op, args, ret, calls>>

\* A Create or the Commit fails: the transaction leaves no row.
JoinGroupRollback(h) ==
    /\ pc[h] = "JoinCreate"
    /\ resp' = [resp EXCEPT ![h] = Response("DatabaseError", req[h], bindings)]
    /\ pc' = [pc EXCEPT ![h] = "idle"]
    /\ UNCHANGED <<bindings, req, chain, before, op, args, ret, calls>>

\* LeaveGroup up to the check that every user is in every group.
LeaveGroup(h) ==
    /\ pc[h] = "idle"
    /\ \E userId \in UserIdLists, groupId \in GroupIdLists, dbError \in BOOLEAN :
          LET r == [op |-> "LeaveGroup", UserId |-> userId, GroupId |-> groupId]
          IN  /\ req' = [req EXCEPT ![h] = r]
              /\ IF Len(userId) = 0 \/ Len(groupId) = 0
                 THEN /\ resp' = [resp EXCEPT ![h] = Response("InvalidArgument", r, bindings)]
                      /\ pc' = pc
                 ELSE IF dbError
                 THEN /\ resp' = [resp EXCEPT ![h] = Response("DatabaseError", r, bindings)]
                      /\ pc' = pc
                 ELSE IF GetUserGroupBindings(bindings, userId, groupId)
                            # Len(userId) * Len(groupId)
                 THEN /\ resp' = [resp EXCEPT ![h] = Response("PermissionDenied", r, bindings)]
                      /\ pc' = pc
                 ELSE /\ resp' = [resp EXCEPT ![h] = Response("none", r, bindings)]
                      /\ pc' = [pc EXCEPT ![h] = "LeaveDelete"]
    /\ UNCHANGED <<bindings, chain, before, op, args, ret, calls>>

\* The Delete of LeaveGroup: every row of the request's users and groups.
LeaveGroupDelete(h) ==
    /\ pc[h] = "LeaveDelete"
    /\ bindings' = [pair \in Pairs |->
                       IF pair[1] \in Range(req[h].UserId)
                          /\ pair[2] \in Range(req[h].GroupId)
                       THEN 0 ELSE bindings[pair]]
    /\ resp' = [resp EXCEPT ![h] = Response("OK", req[h], bindings)]
    /\ pc' = [pc EXCEPT ![h] = "idle"]
    /\ UNCHANGED <<req, chain, before, op, args, ret, calls>>

\* The Delete fails and removes nothing.
LeaveGroupDeleteFails(h) ==
    /\ pc[h] = "LeaveDelete"
    /\ resp' = [resp EXCEPT ![h] = Response("DatabaseError", req[h], bindings)]
    /\ pc' = [pc EXCEPT ![h] = "idle"]
    /\ UNCHANGED <<bindings, req, chain, before, op, args, ret, calls>>

NextBinding ==
    \E h \in Handlers :
        \/ JoinGroup(h)
        \/ JoinGroupCommit(h)
        \/ JoinGroupRollback(h)
        \/ LeaveGroup(h)
        \/ LeaveGroupDelete(h)
        \/ LeaveGroupDeleteFails(h)

SpecBinding == InitBinding /\ [][NextBinding]_vars

(***************************************************************************)
(* Properties of the pure functions, checked under SpecPure.               *)
(***************************************************************************)
NonEmptyOnly(l) == SelectSeq(l, LAMBDA x : x # <<>>)

IsStringsOf(value, l) == value.kind = "[]string" /\ value.v = l

\* What the normalization rule says of every input but a non-nil wrapped string.
NormalizationRule ==
    /\ \/ ret = NilValue
       \/ ret.kind \in {"[]string", "[]int32"} /\ Len(ret.v) >= 1
    /\ args.kind = "string" =>
          IF args.v = <<>> THEN ret = NilValue ELSE IsStringsOf(ret, <<args.v>>)
    /\ args.kind \in {"*StringValue", "*Int32Value"} /\ args.isNil => ret = NilValue
    /\ args.kind = "*Int32Value" /\ ~args.isNil =>
          ret.kind = "[]int32" /\ ret.v = <<args.v>>
    /\ args.kind = "[]string" =>
          IF NonEmptyOnly(args.v) = <<>> THEN ret = NilValue
          ELSE IsStringsOf(ret, NonEmptyOnly(args.v))
    /\ args.kind \notin {"string", "*StringValue", "*Int32Value", "[]string"} =>
          ret = NilValue

NoEmptyElement == ret.kind = "[]string" => \A i \in 1..Len(ret.v) : ret.v[i] # <<>>

\* C5 as stated: getReqValue gives absent or a non-empty list; empty string,
\* nil wrapped scalar and empty list give absent; a non-empty scalar gives its
\* singleton; a list of strings gives its non-empty elements in order; any
\* other shape gives absent; and the result never holds an empty string.
C5_NormalizationAsStated ==
    op = "getReqValue" =>
        /\ NormalizationRule
        /\ args.kind = "*StringValue" /\ ~args.isNil /\ args.v # <<>> =>
              IsStringsOf(ret, <<args.v>>)
        /\ NoEmptyElement

\* C5 amended: as stated, except that a non-nil wrapped string gives the
\* singleton of its value whatever the value, so the result holds an empty
\* string exactly when the input is a non-nil wrapped empty string.
C5_Normalization ==
    op = "getReqValue" =>
        /\ NormalizationRule
        /\ args.kind = "*StringValue" /\ ~args.isNil => IsStringsOf(ret, <<args.v>>)
        /\ ~NoEmptyElement <=> (args.kind = "*StringValue" /\ ~args.isNil /\ args.v = <<>>)

C5_Witness ==
    /\ op = "getReqValue"
    /\ args = StringsParam(<<<<"a">>, <<>>>>)
    /\ ret = StringsValue(<<<<"a">>>>)

\* C7: GetLimitFromRequest gives 20 for 0, 200 above 200 and n itself for
\* 1..200, so always a value in 1..200; GetOffsetFromRequest gives its input;
\* neither changes the chain.
C7_Pagination ==
    /\ op = "GetLimitFromRequest" =>
          /\ ret = (IF args = 0 THEN 20 ELSE IF args > 200 THEN 200 ELSE args)
          /\ ret \in 1..200
          /\ chain = before
    /\ op = "GetOffsetFromRequest" =>
          /\ ret = args
          /\ chain = before

C7_Witness == op = "GetLimitFromRequest" /\ args = 500 /\ ret = 200

\* C8: GetDisplayColumns gives all columns for a nil request list, none for an
\* empty one, and otherwise the requested columns that occur in all columns,
\* in the order and multiplicity of the request.
C8_DisplayColumns ==
    op = "GetDisplayColumns" =>
        LET d == args.displayColumns
            w == args.wholeColumns
        IN  /\ d.isNil => ret = w
            /\ ~d.isNil /\ d.v = <<>> => ret.v = <<>>
            /\ ~d.isNil /\ d.v # <<>> =>
                  /\ ret.v = SelectSeq(d.v, LAMBDA c : \E i \in 1..Len(w.v) : w.v[i] = c)
                  /\ \A i \in 1..Len(ret.v) : \E j \in 1..Len(w.v) : ret.v[i] = w.v[j]
            /\ d = Slice(<<"a", "z">>) /\ w = Slice(<<"a", "b">>) => ret.v = <<"a">>

C8_Witness ==
    /\ op = "GetDisplayColumns"
    /\ args.displayColumns = Slice(<<"a", "z">>)
    /\ args.wholeColumns = Slice(<<"a", "b">>)
    /\ ret.v = <<"a">>

(***************************************************************************)
(* Properties of BuildFilterConditions, checked under SpecFilter.          *)
(***************************************************************************)
\* The WHERE clauses the last call attached.
NewWhere == SubSeq(chain.where, Len(before.where) + 1, Len(chain.where))

KeepsEarlierClauses ==
    /\ Len(chain.where) >= Len(before.where)
    /\ SubSeq(chain.where, 1, Len(before.where)) = before.where
    /\ chain.order = before.order

IsInPredicate(w) == HasSuffix(w.query, InSuffix)

ColumnOf(field) == getFieldName(field.tag)

IsSearchWordField(field) == ColumnOf(field) = SearchWordColumnName

SearchCapable(tableName) == \E i \in 1..Len(SearchWordColumnTable) : SearchWordColumnTable[i] = tableName

IsIndexed(tableName, column) ==
    /\ tableName \in DOMAIN IndexedColumns
    /\ \E i \in 1..Len(IndexedColumns[tableName]) : IndexedColumns[tableName][i] = column

\* The searchable columns of the table that are not excluded, in order.
SearchedColumns(tableName, exclude) ==
    SelectSeq(SearchColumnsOf(tableName),
              LAMBDA column : \A i \in 1..Len(exclude) : exclude[i] # column)

\* The OR-group of one term: one sub-clause per searched column.
OrGroup(tableName, exclude, term) ==
    LET columns == SearchedColumns(tableName, exclude)
    IN  Join([i \in 1..Len(columns) |->
                 IF HasSuffix(columns[i], IdSuffix)
                 THEN EqualCondition(columns[i], term)
                 ELSE LikeCondition(columns[i], term)],
             OrSeparator)

\* The normalized search word of the last call, NilValue without the field.
SearchValue ==
    LET found == SelectSeq(args.fields, IsSearchWordField)
    IN  IF found = <<>> THEN NilValue ELSE getReqValue(found[1].value)

SearchStepRan ==
    /\ op = "BuildFilterConditions"
    /\ SearchCapable(args.tableName)
    /\ SelectSeq(args.fields, IsSearchWordField) # <<>>

\* C1: for a non-empty list of search terms the search step attaches one
\* clause, the AND across the terms of one OR-group per term, each group with
\* one sub-clause per searched column.
C1_SearchAndAcrossTerms ==
    SearchStepRan /\ SearchValue.kind = "[]string" /\ Len(SearchValue.v) >= 1 =>
        LET terms == SearchValue.v
            groups == [i \in 1..Len(terms) |->
                          OrGroup(args.tableName, args.exclude, terms[i])]
        IN  /\ KeepsEarlierClauses
            /\ SelectSeq(NewWhere, LAMBDA w : ~IsInPredicate(w))
                  = <<[query |-> Join(groups, AndSeparator), args |-> <<>>]>>

\* The IN predicates the request calls for, in field order.
RECURSIVE ExpectedInPredicates(_, _)
ExpectedInPredicates(fields, tableName) ==
    IF fields = <<>> THEN <<>>
    ELSE LET column == ColumnOf(Head(fields))
             value == getReqValue(Head(fields).value)
             rest == ExpectedInPredicates(Tail(fields), tableName)
         IN  IF IsIndexed(tableName, column) /\ value # NilValue
             THEN <<[query |-> column \o InSuffix, args |-> <<value>>]>> \o rest
             ELSE rest

\* C2: BuildFilterConditions attaches an IN predicate bound to the normalized
\* value exactly for the fields whose column is indexed for the table and
\* whose value is not absent, whatever the exclude columns are.
C2_IndexedFilters ==
    op = "BuildFilterConditions" =>
        LET userId == args.fields[1].value
            onUserId == [query |-> ColumnUserId \o InSuffix,
                         args |-> <<StringsValue(<<userId.v>>)>>]
        IN  /\ KeepsEarlierClauses
            /\ SelectSeq(NewWhere, IsInPredicate)
                  = ExpectedInPredicates(args.fields, args.tableName)
            /\ args.tableName \notin DOMAIN IndexedColumns =>
                  SelectSeq(NewWhere, IsInPredicate) = <<>>
            /\ userId.kind = "string" /\ IsIndexed(args.tableName, ColumnUserId) =>
                  IF userId.v = <<>>
                  THEN \A i \in 1..Len(NewWhere) :
                          NewWhere[i].query # ColumnUserId \o InSuffix
                  ELSE \E i \in 1..Len(NewWhere) : NewWhere[i] = onUserId

C2_Witness ==
    /\ op = "BuildFilterConditions"
    /\ args.tableName = TableUser
    /\ args.exclude = <<ColumnName, ColumnUserId>>
    /\ args.fields[1].value = StringParam(<<"a">>)
    /\ NewWhere[1] = [query |-> ColumnUserId \o InSuffix,
                      args |-> <<StringsValue(<<<<"a">>>>)>>]

\* The cases of C3: the search word is absent, is not a list of strings, or
\* every searchable column is excluded.
NoSearchCase ==
    /\ SearchStepRan
    /\ \/ SearchValue = NilValue
       \/ SearchValue.kind # "[]string"
       \/ SearchedColumns(args.tableName, args.exclude) = <<>>

\* The chain the same request gives without its search-word field.
WithoutSearchWord ==
    BuildFilterConditions(before,
                          SelectSeq(args.fields, LAMBDA f : ~IsSearchWordField(f)),
                          args.tableName, args.exclude)

EmptyClause == [query |-> <<>>, args |-> <<>>]

\* C3 as stated: in these cases the chain is the one the request gives
\* without its search-word field, with no clause attached for the search step.
C3_NoSearchClauseAsStated == NoSearchCase => chain = WithoutSearchWord

\* C3 amended: in these cases the chain is the one the request gives without
\* its search-word field plus exactly one clause, whose condition is empty
\* and which binds nothing.
C3_OnlyEmptySearchClause ==
    NoSearchCase =>
        /\ chain.order = WithoutSearchWord.order
        /\ \E k \in 0..Len(WithoutSearchWord.where) :
              chain.where = SubSeq(WithoutSearchWord.where, 1, k)
                            \o <<EmptyClause>>
                            \o SubSeq(WithoutSearchWord.where, k + 1,
                                      Len(WithoutSearchWord.where))

C3_Witness ==
    /\ NoSearchCase
    /\ SearchValue = StringsValue(<<<<"a">>>>)
    /\ args.exclude = <<ColumnName, ColumnUserId>>
    /\ NewWhere[Len(NewWhere)] = EmptyClause

(***************************************************************************)
(* Properties of AddQueryOrderDir and BuildRootGroupIdConditions, checked  *)
(* under Spec.                                                             *)
(***************************************************************************)
Desc == <<"D","E","S","C">>

Asc == <<"A","S","C">>

SortColumn ==
    IF "GetSortKey" \in args.req.methods /\ args.req.sortKey # <<>>
    THEN args.req.sortKey ELSE args.defaultColumn

AttachesOrder(direction) ==
    /\ chain.where = before.where
    /\ chain.order = Append(before.order, SortColumn \o <<" ">> \o direction)

\* C4 as stated: one ORDER BY is attached; the column is the sort key if the
\* request exposes a non-empty one, else the default column; the direction is
\* ASC if the request exposes a reverse flag that is true, else DESC.
C4_OrderIndependentAsStated ==
    op = "AddQueryOrderDir" =>
        AttachesOrder(IF "GetReverse" \in args.req.methods /\ args.req.reverse
                      THEN Asc ELSE Desc)

\* C4 amended: the direction is ASC if the request exposes both a sort key
\* and a reverse flag and the flag is true, else DESC.
C4_Order ==
    op = "AddQueryOrderDir" =>
        /\ AttachesOrder(IF {"GetSortKey", "GetReverse"} \subseteq args.req.methods
                            /\ args.req.reverse
                         THEN Asc ELSE Desc)
        /\ args.req.methods = {"GetSortKey", "GetReverse"} /\ args.req.sortKey = <<>>
           /\ ~args.req.reverse /\ args.defaultColumn = ColumnCreateTime =>
              chain.order[Len(chain.order)] = ColumnCreateTime \o <<" ">> \o Desc
        /\ args.req.methods = {"GetSortKey", "GetReverse"}
           /\ args.req.sortKey = ColumnName /\ args.req.reverse =>
              chain.order[Len(chain.order)] = ColumnName \o <<" ">> \o Asc

C4_Witness ==
    /\ op = "AddQueryOrderDir"
    /\ args.req = [methods |-> {"GetSortKey", "GetReverse"},
                   sortKey |-> ColumnName, reverse |-> TRUE]
    /\ chain.order[Len(chain.order)] = <<"n","a","m","e"," ","A","S","C">>

\* The number of places where sub occurs in s.
Occurrences(s, sub) ==
    Cardinality({i \in 1..Len(s) :
                    i + Len(sub) - 1 <= Len(s) /\ SubSeq(s, i, i + Len(sub) - 1) = sub})

\* C6: BuildRootGroupIdConditions leaves the chain as it is for no ids, and
\* for n >= 1 ids attaches one clause, the OR of n substring matches on the
\* group path, one per id in input order, each built from its own id.
C6_RootGroupIds ==
    op = "BuildRootGroupIdConditions" =>
        IF args = <<>> THEN chain = before
        ELSE LET predicates == [i \in 1..Len(args) |->
                                   LikeCondition(ColumnGroupPath, args[i])]
             IN  /\ chain.order = before.order
                 /\ chain.where = Append(before.where,
                                         [query |-> Join(predicates, OrSeparator),
                                          args |-> <<>>])
                 /\ Occurrences(chain.where[Len(chain.where)].query, OrSeparator)
                       = Len(args) - 1
                 /\ Occurrences(chain.where[Len(chain.where)].query,
                                ColumnGroupPath \o <<" ","L","I","K","E"," ">>)
                       = Len(args)

C6_Witness ==
    /\ op = "BuildRootGroupIdConditions"
    /\ args = <<<<"g","1">>, <<"%","2">>>>
    /\ Len(chain.where) = Len(before.where) + 1
    /\ Occurrences(chain.where[Len(chain.where)].query, OrSeparator) = 1

(***************************************************************************)
(* Properties of the binding handlers, checked under SpecBinding.          *)
(***************************************************************************)
\* C9: after any interleaving of JoinGroup and LeaveGroup calls the binding
\* table holds at most one row for each (user id, group id) pair.
C9_AtMostOneBinding == \A pair \in Pairs : bindings[pair] <= 1

Returned(h, name) == pc[h] = "idle" /\ req[h].op = name /\ resp[h].code # "none"

\* C10: unless the database fails, LeaveGroup returns InvalidArgument exactly
\* for an empty list, and otherwise succeeds exactly when every pair of the
\* request is bound at its check (PermissionDenied if some pair is not), and
\* every pair it removes is bound when it is removed.
C10_LeaveAllOrNothing ==
    \A h \in Handlers :
        Returned(h, "LeaveGroup") /\ resp[h].code # "DatabaseError" =>
            IF req[h].UserId = <<>> \/ req[h].GroupId = <<>>
            THEN resp[h].code = "InvalidArgument"
            ELSE /\ resp[h].code \in {"OK", "PermissionDenied"}
                 /\ resp[h].code = "OK" => resp[h].allBound
                 /\ resp[h].code = "PermissionDenied" => ~resp[h].allBound

====
